---- MODULE Spec2Model ----
(***************************************************************************)
(* rstparse: RSTParser (src/rstparse/__init__.py).                         *)
(*                                                                         *)
(* A line is a sequence of characters (one-character strings); a text is a *)
(* sequence of characters containing newlines.  The regular expressions of *)
(* the source are written out as operators on character sequences.         *)
(***************************************************************************)
EXTENDS Integers, Sequences, FiniteSets, TLC

VARIABLES
    src,        \* the lines read() stored, before parse() (kept for reference)
    lines,      \* self.lines
    out,        \* the local list `lines` of expand_auto_directives
    i,          \* 1-based position of the next line of the running loop
    module,     \* self.module
    cls,        \* self.cls
    indices,    \* self.indices: symbol name -> line number
    pc,         \* where the caller of parse()/parse_indices() stands
    valid,      \* backend: the names pydoc.locate finds
    nloc,       \* backend: what pydoc.locate does for the name "n"
    explog,     \* history: per line of `out`, the name the expansion resolved
    idxlog,     \* history: per line scanned by the first indexing pass, the
                \* name its directive registered
    first,      \* the index as it stood when parse() returned
    text,       \* read(): the stream's content
    rlines,     \* read(): the resulting self.lines
    rpc,        \* read(): "start" or "done"
    qname, qmodule, qcls, probes, result, qpc  \* one call of resolve_name

vars == <<src, lines, out, i, module, cls, indices, pc, valid, nloc, explog,
          idxlog, first, text, rlines, rpc, qname, qmodule, qcls, probes,
          result, qpc>>

parseVars == <<src, lines, out, i, module, cls, indices, pc, explog, idxlog, first>>
readVars == <<text, rlines, rpc>>
resolveVars == <<qname, qmodule, qcls, probes, result, qpc>>

\* what parse() and parse_indices() leave alone
rest == <<valid, nloc, text, rlines, rpc, qname, qmodule, qcls, probes, result, qpc>>

----------------------------------------------------------------------------
(* Characters and generic sequence helpers *)

\* Python's None; no character sequence equals it
None == <<"None">>

\* the character \x08
BS == "BS"

\* the character \n
NL == "\n"

WordChars ==
    {"a","b","c","d","e","f","g","h","i","j","k","l","m","n","o","p","q","r",
     "s","t","u","v","w","x","y","z","A","B","C","D","E","F","G","H","I","J",
     "K","L","M","N","O","P","Q","R","S","T","U","V","W","X","Y","Z","0","1",
     "2","3","4","5","6","7","8","9","_"}

\* \w
IsWord(c) == c \in WordChars

\* \w or \x08
IsWordOrBS(c) == c \in WordChars \/ c = BS

SpaceChars == {" "}

WordOrBSChars == WordChars \cup {BS}

Min(S) == CHOOSE x \in S : \A y \in S : x <= y

Max(S) == CHOOSE x \in S : \A y \in S : x >= y

Drop(s, n) == SubSeq(s, n + 1, Len(s))

Take(s, n) == SubSeq(s, 1, n)

\* s[k..] starts with p
MatchAt(s, k, p) ==
    /\ k >= 1
    /\ k + Len(p) - 1 <= Len(s)
    /\ SubSeq(s, k, k + Len(p) - 1) = p

\* last index of the longest run of characters of the class C that starts at k
\* (k - 1 when the run is empty): a greedy C*
RECURSIVE RunEnd(_, _, _)
RunEnd(s, k, C) ==
    IF k <= Len(s) /\ s[k] \in C THEN RunEnd(s, k + 1, C) ELSE k - 1

RECURSIVE Concat(_)
Concat(ss) == IF ss = <<>> THEN <<>> ELSE Head(ss) \o Concat(Tail(ss))

----------------------------------------------------------------------------
(* The backend: pydoc.locate and pydoc.render_doc *)

\* the names of the symbols the documents below speak of
Name_p == <<"p">>

Name_pW == <<"p", ".", "W">>

Name_pWW == <<"p", ".", "W", ".", "W">>

Name_Wm == <<"W", ".", "m">>

Name_n == <<"n">>

\* the names pydoc.locate may or may not find
Universe == {Name_p, Name_pW, Name_pWW, Name_Wm}

\* pydoc.locate(name): "object", "None", or "ErrorDuringImport" (raised)
Locate(name) ==
    IF name = Name_n THEN nloc
    ELSE IF name \in valid THEN "object" ELSE "None"

\* the two lines pydoc.render_doc puts first
Banner == << <<"P", "y", "t", "h", "o", "n">>, <<>> >>

\* "W\bW = class W": the head line pydoc renders for class W
RenderedClassHead == <<"W", BS, "W", " ", "=", " ", "c", "l", "a", "s", "s", " ", "W">>

\* " |  m\bm(self)": the line pydoc renders for method m
RenderedMethod == <<" ", "|", " ", " ", "m", BS, "m", "(", "s", "e", "l", "f", ")">>

\* pydoc.render_doc(name).splitlines()
RenderDoc(name) ==
    IF name = Name_pW THEN Banner \o <<RenderedClassHead, RenderedMethod>>
    ELSE IF name = Name_pWW THEN Banner \o << <<"W", BS, "W", " ", "=", " ", "1">> >>
    ELSE IF name = Name_n
        THEN Banner \o << <<".", ".", " ", "a", "u", "t", "o", "c", "l", "a", "s", "s", ":", ":", " ", "W">> >>
    ELSE Banner

----------------------------------------------------------------------------
(* RSTParser: the pure methods *)

\* the directive names the code compares with
K_autosummary_ == <<"a", "u", "t", "o", "s", "u", "m", "m", "a", "r", "y", "_">>

K_module == <<"m", "o", "d", "u", "l", "e">>

K_currentmodule == <<"c", "u", "r", "r", "e", "n", "t">> \o K_module

K_automodule == <<"a", "u", "t", "o">> \o K_module

K_class == <<"c", "l", "a", "s", "s">>

K_autoclass == <<"a", "u", "t", "o">> \o K_class

K_method == <<"m", "e", "t", "h", "o", "d">>

K_classmethod == K_class \o K_method

K_coroutinemethod == <<"c", "o", "r", "o", "u", "t", "i", "n", "e">> \o K_method

K_automethod == <<"a", "u", "t", "o">> \o K_method

K_staticmethod == <<"s", "t", "a", "t", "i", "c">> \o K_method

K_function == <<"f", "u", "n", "c", "t", "i", "o", "n">>

K_autofunction == <<"a", "u", "t", "o">> \o K_function

K_data == <<"d", "a", "t", "a">>

K_autodata == <<"a", "u", "t", "o">> \o K_data

K_attribute == <<"a", "t", "t", "r", "i", "b", "u", "t", "e">>

K_exception == <<"e", "x", "c", "e", "p", "t", "i", "o", "n">>

K_decorator == <<"d", "e", "c", "o", "r", "a", "t", "o", "r">>

K_envvar == <<"e", "n", "v", "v", "a", "r">>

DIRECTIVES_TO_INCLUDE ==
    {K_autosummary_, K_module, K_currentmodule, K_automodule, K_class,
     K_autoclass, K_method, K_classmethod, K_coroutinemethod, K_automethod,
     K_staticmethod, K_function, K_autofunction,
     <<"c", ":">> \o K_function, K_data, K_attribute, K_exception,
     <<"c", ":", "v", "a", "r">>, <<"c", ":", "t", "y", "p", "e">>,
     K_decorator, K_envvar, K_autodata}

\* the match of \.\. *([^:]+):: *(.*) that starts at position s: <<key, val>>,
\* or <<>> when the pattern does not match there
DirectiveAt(astr, s) ==
    LET n == Len(astr)
        colons == {c \in (s + 2)..n : astr[c] = ":"}
    IN  IF ~(s + 1 <= n /\ astr[s] = "." /\ astr[s + 1] = ".") \/ colons = {}
        THEN <<>>
        ELSE LET c == Min(colons)
                 sp == RunEnd(astr, s + 2, SpaceChars)
                 ks == IF sp + 1 < c THEN sp + 1 ELSE c - 1
             IN  IF c = s + 2 \/ c + 1 > n \/ astr[c + 1] # ":"
                 THEN <<>>
                 ELSE <<SubSeq(astr, ks, c - 1),
                        Drop(astr, RunEnd(astr, c + 2, SpaceChars))>>

\* parse_directive: re.search takes the leftmost match
parse_directive(astr) ==
    LET starts == {s \in 1..Len(astr) : DirectiveAt(astr, s) # <<>>}
    IN  IF starts = {} THEN <<None, None>> ELSE DirectiveAt(astr, Min(starts))

\* compose_name: '.'.join of the arguments that are not None
RECURSIVE compose_name(_)
compose_name(kargs) ==
    LET components == SelectSeq(kargs, LAMBDA n : n # None)
    IN  IF components = <<>> THEN <<>>
        ELSE IF Len(components) = 1 THEN components[1]
        ELSE components[1] \o <<".">> \o compose_name(Tail(components))

\* is_valid_name: ErrorDuringImport is caught
is_valid_name(name) == Locate(name) = "object"

\* ProbeOrder with the two loops exchanged: for c in [cls, None]: for m in
\* [module, None]
ProbeOrder_cls_outer(name, m, c) ==
    <<compose_name(<<m, c, name>>), compose_name(<<None, c, name>>),
      compose_name(<<m, None, name>>), compose_name(<<None, None, name>>)>>

\* the names resolve_name may probe with is_valid_name, in order:
\* for m in [module, None]: for c in [cls, None]
ProbeOrder(name, m, c) ==
    <<compose_name(<<m, c, name>>), compose_name(<<m, None, name>>),
      compose_name(<<None, c, name>>), compose_name(<<None, None, name>>)>>

\* the names resolve_name does probe: up to and including the first valid one
resolve_probes(name, m, c) ==
    LET order == ProbeOrder(name, m, c)
        hits == {k \in 1..4 : is_valid_name(order[k])}
    IN  IF hits = {} THEN order ELSE Take(order, Min(hits))

\* resolve_name(name, module=m, cls=c) with the defaults already filled in
resolve_name(name, m, c) ==
    LET tried == resolve_probes(name, m, c)
        n == tried[Len(tried)]
    IN  IF is_valid_name(n) THEN n ELSE None

\* pydoc_lines_for returning the rendered lines with their header
pydoc_lines_for_keep_banner(name, m, c) ==
    LET n == resolve_name(name, m, c)
    IN  IF n = None THEN <<>> ELSE RenderDoc(n)

\* pydoc_lines_for without the test for None: the name as given is rendered
pydoc_lines_for_no_check(name, m, c) ==
    LET n == resolve_name(name, m, c)
    IN  Drop(RenderDoc(IF n = None THEN name ELSE n), 2)

\* pydoc_lines_for: lines[2:] of the rendered document
pydoc_lines_for(name, m, c) ==
    LET n == resolve_name(name, m, c)
    IN  IF n = None THEN <<>> ELSE Drop(RenderDoc(n), 2)

\* re.sub(r' *\(.+', '', val)
StripArgsAndSpaces(val) ==
    LET opens == {k \in 1..(Len(val) - 1) : val[k] = "("}
    IN  IF opens = {} THEN val
        ELSE LET c == Min(opens)
                 b == Min({k \in 1..c : \A j \in k..(c - 1) : val[j] = " "})
             IN  Take(val, b - 1)

\* re.sub(r'\(.+', '', name)
StripArgs(name) ==
    LET opens == {k \in 1..(Len(name) - 1) : name[k] = "("}
    IN  IF opens = {} THEN name ELSE Take(name, Min(opens) - 1)

\* re.sub(r'.\x08', '', line)
RECURSIVE StripBold(_)
StripBold(line) ==
    IF Len(line) < 2 THEN line
    ELSE IF line[2] = BS THEN StripBold(Drop(line, 2))
    ELSE <<line[1]>> \o StripBold(Tail(line))

Lit_eq_class == <<" ", "=", " ", "c", "l", "a", "s", "s", " ">>

Lit_class == <<"c", "l", "a", "s", "s", " ">>

\* re.search(r' = class (\w+)', line): group 1, or None
SearchEqClass(line) ==
    LET at == {k \in 1..Len(line) :
                 /\ MatchAt(line, k, Lit_eq_class)
                 /\ k + 9 <= Len(line)
                 /\ IsWord(line[k + 9])}
    IN  IF at = {} THEN None
        ELSE LET k == Min(at)
             IN  SubSeq(line, k + 9, RunEnd(line, k + 9, WordChars))

\* re.match(r' *class (\w+)', line): group 1, or None
MatchClass(line) ==
    LET k == RunEnd(line, 1, SpaceChars) + 1
    IN  IF MatchAt(line, k, Lit_class) /\ k + 6 <= Len(line) /\ IsWord(line[k + 6])
        THEN SubSeq(line, k + 6, RunEnd(line, k + 6, WordChars))
        ELSE None

\* re.search(r'\|  (\w\x08[\w\x08]+)', line): group 1, or None
SearchMethod(line) ==
    LET at == {k \in 1..Len(line) :
                 /\ MatchAt(line, k, <<"|", " ", " ">>)
                 /\ k + 5 <= Len(line)
                 /\ IsWord(line[k + 3])
                 /\ line[k + 4] = BS
                 /\ IsWordOrBS(line[k + 5])}
    IN  IF at = {} THEN None
        ELSE LET k == Min(at)
             IN  SubSeq(line, k + 3, RunEnd(line, k + 5, WordOrBSChars))

\* key.startswith('auto')
StartsWithAuto(key) == MatchAt(key, 1, <<"a", "u", "t", "o">>)

\* track_context keeping the argument list of a class directive
track_context_no_strip(ctx, line) ==
    LET d == parse_directive(line)
        key == d[1]
        val == d[2]
        m1 == IF key \in {K_module, K_currentmodule, K_automodule} THEN val ELSE ctx[1]
        c1 == IF key \in {K_class, K_autoclass} THEN val ELSE ctx[2]
        g2 == SearchEqClass(line)
        c2 == IF g2 # None THEN g2 ELSE c1
        g3 == MatchClass(StripBold(line))
        c3 == IF g3 # None THEN g3 ELSE c2
    IN  <<m1, c3>>

\* track_context: the context <<module, cls>> after the line, from the one before
track_context(ctx, line) ==
    LET d == parse_directive(line)
        key == d[1]
        val == d[2]
        m1 == IF key \in {K_module, K_currentmodule, K_automodule} THEN val ELSE ctx[1]
        c1 == IF key \in {K_class, K_autoclass} THEN StripArgsAndSpaces(val) ELSE ctx[2]
        g2 == SearchEqClass(line)
        c2 == IF g2 # None THEN g2 ELSE c1
        g3 == MatchClass(StripBold(line))
        c3 == IF g3 # None THEN g3 ELSE c2
    IN  <<m1, c3>>


\* reset_context forgetting self.cls
reset_context_keeps_cls == <<None, cls>>

\* reset_context
reset_context == <<None, None>>

\* Python's truth value of a str-or-None
Truthy(v) == v # None /\ v # <<>>

\* self.indices.setdefault(name, lineno): the first registration stays
DictPut_keep_first(d, name, lineno) ==
    [k \in DOMAIN d \cup {name} |-> IF k \in DOMAIN d THEN d[k] ELSE lineno]

\* self.indices[name] = lineno
DictPut(d, name, lineno) ==
    [k \in DOMAIN d \cup {name} |-> IF k = name THEN lineno ELSE d[k]]

EmptyDict == [k \in {} |-> 0]

\* register_index(name, lineno), under the context <<m, c>>
register_index(d, name, lineno, m, c) ==
    LET n == resolve_name(StripArgs(name), m, c)
    IN  IF Truthy(n) THEN DictPut(d, n, lineno) ELSE d

\* the name the expansion pass resolves for a line under the context ctx
\* (None when the line is not expanded or the name does not resolve)
ExpandedName(ctx, line) ==
    LET d == parse_directive(line)
    IN  IF Truthy(d[1]) /\ StartsWithAuto(d[1]) /\ Truthy(d[2])
        THEN resolve_name(d[2], ctx[1], ctx[2])
        ELSE None

\* the iteration with lines.append(line) moved under the `if`
ExpandedLines_append_in_if(ctx, line) ==
    LET d == parse_directive(line)
    IN  IF Truthy(d[1]) /\ StartsWithAuto(d[1]) /\ Truthy(d[2])
        THEN <<line>> \o pydoc_lines_for(d[2], ctx[1], ctx[2])
        ELSE <<>>

\* the lines one iteration of expand_auto_directives appends; ctx is the
\* context after track_context(line)
ExpandedLines(ctx, line) ==
    LET d == parse_directive(line)
    IN  <<line>> \o
        (IF Truthy(d[1]) /\ StartsWithAuto(d[1]) /\ Truthy(d[2])
         THEN pydoc_lines_for(d[2], ctx[1], ctx[2])
         ELSE <<>>)

\* the directive part of one iteration of parse_indices (lines 157-159)
IndexDirective(d, ctx, line, lineno) ==
    LET kv == parse_directive(line)
    IN  IF kv[1] \in DIRECTIVES_TO_INCLUDE /\ Truthy(kv[2])
        THEN register_index(d, kv[2], lineno, ctx[1], ctx[2])
        ELSE d

\* self.cls + '.' + name raises TypeError when self.cls is None
MethodRaises(ctx, line) == SearchMethod(line) # None /\ ctx[2] = None

\* the method part of one iteration of parse_indices (lines 161-165)
IndexMethod(d, ctx, line, lineno) ==
    LET g == SearchMethod(line)
    IN  IF g # None /\ ctx[2] # None
        THEN register_index(d, ctx[2] \o <<".">> \o StripBold(g), lineno, ctx[1], ctx[2])
        ELSE d

----------------------------------------------------------------------------
(* RSTParser.read *)

Lit_autosummary ==
    <<"a", "u", "t", "o", "s", "u", "m", "m", "a", "r", "y", ":", ":">>

Lit_pseudo ==
    <<".", ".", " ", "a", "u", "t", "o", "s", "u", "m", "m", "a", "r", "y", "_",
      ":", ":", " ">>

\* \n\n at position k
DoubleNL(t, k) == k + 1 <= Len(t) /\ t[k] = NL /\ t[k + 1] = NL

\* the match of \n.. autosummary::.*?\n\n(.+?)\n\n (DOTALL) that starts at p:
\* <<first index of group 1, last index of group 1>>, or <<>> when the
\* pattern does not match there.  The two dots of the pattern match any two
\* characters; each lazy part ends at the first \n\n that lets the rest match.
BlockAt(t, p) ==
    IF ~(p + 16 <= Len(t) /\ t[p] = NL /\ t[p + 3] = " "
         /\ MatchAt(t, p + 4, Lit_autosummary))
    THEN <<>>
    ELSE LET qs == {k \in (p + 17)..Len(t) : DoubleNL(t, k)}
         IN  IF qs = {} THEN <<>>
             ELSE LET q == Min(qs)
                      rs == {k \in (q + 3)..Len(t) : DoubleNL(t, k)}
                  IN  IF rs = {} THEN <<>> ELSE <<q + 2, Min(rs) - 1>>

\* re.sub(r'^ +', '.. autosummary_:: ', buf, flags=re.MULTILINE) from
\* position k on; bol: k is at the beginning of a line
RECURSIVE SubIndent(_, _, _)
SubIndent(buf, k, bol) ==
    IF k > Len(buf) THEN <<>>
    ELSE IF bol /\ buf[k] = " "
        THEN Lit_pseudo \o SubIndent(buf, RunEnd(buf, k, SpaceChars) + 1, FALSE)
    ELSE <<buf[k]>> \o SubIndent(buf, k + 1, buf[k] = NL)

\* repl_autoloaded
repl_autoloaded(group1) == <<NL>> \o SubIndent(group1, 1, TRUE) \o <<NL, NL>>

\* re.sub of the block pattern over buf from position pos on: the leftmost
\* match is replaced and the search goes on after it
RECURSIVE SubBlocks(_, _)
SubBlocks(buf, pos) ==
    LET starts == {p \in pos..Len(buf) : BlockAt(buf, p) # <<>>}
    IN  IF starts = {} THEN SubSeq(buf, pos, Len(buf))
        ELSE LET p == Min(starts)
                 g == BlockAt(buf, p)
             IN  SubSeq(buf, pos, p - 1)
                 \o repl_autoloaded(SubSeq(buf, g[1], g[2]))
                 \o SubBlocks(buf, g[2] + 3)

\* str.splitlines for a text whose only line boundary is \n
RECURSIVE splitlines(_)
splitlines(t) ==
    IF t = <<>> THEN <<>>
    ELSE LET e == RunEnd(t, 1, {c \in {t[k] : k \in 1..Len(t)} : c # NL})
         IN  <<Take(t, e)>> \o splitlines(Drop(t, e + 1))

\* read(stream): the lines stored in self.lines
read(buf) == splitlines(SubBlocks(buf, 1))

----------------------------------------------------------------------------
(* The documents and backends explored *)

MaxLines == 2

Dots == <<".", ".", " ">>

Sep == <<":", ":", " ">>

Line_module_p == Dots \o K_module \o Sep \o <<"p">>

Line_autoclass_W == Dots \o K_autoclass \o Sep \o <<"W">>

Line_class_Wx == Dots \o K_class \o Sep \o <<"W", "(", "x", ")">>

Line_method_m == Dots \o K_method \o Sep \o <<"m">>

Line_autofunction_n == Dots \o K_autofunction \o Sep \o <<"n">>

Line_class_head == Lit_class \o <<"W", ":">>

\* " |  m(self)": a method line without the bold rendering
Line_plain == <<" ", "|", " ", " ", "m", "(", "s", "e", "l", "f", ")">>

Pool ==
    {Line_module_p, Line_autoclass_W, Line_class_Wx, Line_method_m,
     Line_autofunction_n, Line_class_head, RenderedMethod, Line_plain}

Docs == UNION {[1..n -> Pool] : n \in 0..MaxLines}

LocateOutcomes == {"object", "None", "ErrorDuringImport"}

----------------------------------------------------------------------------
(* parse() and a further parse_indices() on one RSTParser *)

ReadIdle == text = <<>> /\ rlines = <<>> /\ rpc = "idle"

ResolveIdle ==
    /\ qname = <<>> /\ qmodule = None /\ qcls = None
    /\ probes = <<>> /\ result = None /\ qpc = "idle"

Init ==
    /\ src \in Docs
    /\ lines = src
    /\ out = <<>>
    /\ i = 1
    /\ module = None
    /\ cls = None
    /\ indices = EmptyDict
    /\ pc = "start"
    /\ valid \in SUBSET Universe
    /\ nloc \in LocateOutcomes
    /\ explog = <<>>
    /\ idxlog = <<>>
    /\ first = EmptyDict
    /\ ReadIdle
    /\ ResolveIdle

\* parse() is called: expand_auto_directives starts (lines 133-134)
StartParse ==
    /\ pc = "start"
    /\ out' = <<>>
    /\ module' = reset_context[1]
    /\ cls' = reset_context[2]
    /\ i' = 1
    /\ pc' = "expand"
    /\ UNCHANGED <<src, lines, indices, explog, idxlog, first>>
    /\ UNCHANGED rest

\* one iteration of the loop of expand_auto_directives (lines 135-140)
ExpandLine ==
    /\ pc = "expand"
    /\ i <= Len(lines)
    /\ LET line == lines[i]
           ctx == track_context(<<module, cls>>, line)
           new == ExpandedLines(ctx, line)
       IN  /\ out' = out \o new
           /\ module' = ctx[1]
           /\ cls' = ctx[2]
           /\ explog' = explog \o <<ExpandedName(ctx, line)>>
                               \o [k \in 1..(Len(new) - 1) |-> <<"spliced">>]
    /\ i' = i + 1
    /\ UNCHANGED <<src, lines, indices, pc, idxlog, first>>
    /\ UNCHANGED rest

\* the loop of expand_auto_directives ends (line 141) and parse_indices
\* starts (line 155)
ExpandEnd ==
    /\ pc = "expand"
    /\ i > Len(lines)
    /\ lines' = out
    /\ module' = reset_context[1]
    /\ cls' = reset_context[2]
    /\ i' = 1
    /\ pc' = "index"
    /\ UNCHANGED <<src, out, indices, explog, idxlog, first>>
    /\ UNCHANGED rest

\* one iteration of the loop of parse_indices (lines 156-166); lineno = i - 1
IndexLine ==
    /\ pc \in {"index", "reindex"}
    /\ i <= Len(lines)
    /\ LET line == lines[i]
           ctx == <<module, cls>>
           d1 == IndexDirective(indices, ctx, line, i - 1)
           kv == parse_directive(line)
           reg == IF kv[1] \in DIRECTIVES_TO_INCLUDE /\ Truthy(kv[2])
                  THEN resolve_name(StripArgs(kv[2]), module, cls)
                  ELSE None
       IN  /\ idxlog' = IF pc = "index" THEN Append(idxlog, reg) ELSE idxlog
           /\ IF MethodRaises(ctx, line)
              THEN /\ indices' = d1
                   /\ pc' = "TypeError"
                   /\ UNCHANGED <<module, cls, i>>
              ELSE /\ indices' = IndexMethod(d1, ctx, line, i - 1)
                   /\ module' = track_context(ctx, line)[1]
                   /\ cls' = track_context(ctx, line)[2]
                   /\ i' = i + 1
                   /\ pc' = pc
    /\ UNCHANGED <<src, lines, out, explog, first>>
    /\ UNCHANGED rest

\* parse_indices returns, and with it parse()
IndexEnd ==
    /\ pc = "index"
    /\ i > Len(lines)
    /\ pc' = "parsed"
    /\ first' = indices
    /\ UNCHANGED <<src, lines, out, i, module, cls, indices, explog, idxlog>>
    /\ UNCHANGED rest

\* the caller runs parse_indices() once more (line 155)
Reindex ==
    /\ pc = "parsed"
    /\ module' = reset_context[1]
    /\ cls' = reset_context[2]
    /\ i' = 1
    /\ pc' = "reindex"
    /\ UNCHANGED <<src, lines, out, indices, explog, idxlog, first>>
    /\ UNCHANGED rest

\* the second parse_indices() returns
ReindexEnd ==
    /\ pc = "reindex"
    /\ i > Len(lines)
    /\ pc' = "done"
    /\ UNCHANGED <<src, lines, out, i, module, cls, indices, explog, idxlog, first>>
    /\ UNCHANGED rest

Next ==
    \/ StartParse
    \/ ExpandLine
    \/ ExpandEnd
    \/ IndexLine
    \/ IndexEnd
    \/ Reindex
    \/ ReindexEnd

Spec == Init /\ [][Next]_vars


----------------------------------------------------------------------------
(* parse() as a function of the lines and the backend, built from the same
   loop bodies; it gives the result for a document other than src *)

\* the loop of expand_auto_directives from line k on, ctx the context so far
RECURSIVE expand_auto_directives(_, _, _)
expand_auto_directives(ls, k, ctx) ==
    IF k > Len(ls) THEN <<>>
    ELSE LET c2 == track_context(ctx, ls[k])
         IN  ExpandedLines(c2, ls[k]) \o expand_auto_directives(ls, k + 1, c2)

\* the loop of parse_indices from line k on: <<indices, "parsed">>, or
\* <<indices, "TypeError">> when line 164 raises
RECURSIVE parse_indices(_, _, _, _)
parse_indices(ls, k, ctx, d) ==
    IF k > Len(ls) THEN <<d, "parsed">>
    ELSE LET d1 == IndexDirective(d, ctx, ls[k], k - 1)
         IN  IF MethodRaises(ctx, ls[k]) THEN <<d1, "TypeError">>
             ELSE parse_indices(ls, k + 1, track_context(ctx, ls[k]),
                                IndexMethod(d1, ctx, ls[k], k - 1))

\* parse() on a fresh RSTParser: <<lines, indices, outcome>>
parse(doc) ==
    LET e == expand_auto_directives(doc, 1, <<None, None>>)
    IN  <<e>> \o parse_indices(e, 1, <<None, None>>, EmptyDict)

\* the loops above, run to their end on src, compute parse(src)
ParseAgrees ==
    pc \in {"parsed", "TypeError"} => parse(src) = <<lines, indices, pc>>

----------------------------------------------------------------------------
(* What the claims speak of, stated apart from the loops above *)

ModuleKinds == {K_module, K_currentmodule, K_automodule}

ClassKinds == {K_class, K_autoclass}

IsDirective(line) == parse_directive(line)[1] # None

IsMethodLine(line) == SearchMethod(line) # None

SetsModule(line) == parse_directive(line)[1] \in ModuleKinds

\* the identifier a class-setting line sets, None for any other line
ClassSetBy(line) ==
    LET h == MatchClass(StripBold(line))
        e == SearchEqClass(line)
        d == parse_directive(line)
    IN  IF h # None THEN h
        ELSE IF e # None THEN e
        ELSE IF d[1] \in ClassKinds THEN StripArgsAndSpaces(d[2])
        ELSE None

\* the value of the last module-setting directive among ls[1..n]
ExpectedModule(ls, n) ==
    LET at == {k \in 1..n : SetsModule(ls[k])}
    IN  IF at = {} THEN None ELSE parse_directive(ls[Max(at)])[2]

\* the identifier set by the last class-setting line among ls[1..n]
ExpectedClass(ls, n) ==
    LET at == {k \in 1..n : ClassSetBy(ls[k]) # None}
    IN  IF at = {} THEN None ELSE ClassSetBy(ls[Max(at)])

\* the candidates of a name under a context, most specific first
Candidates(name, m, c) ==
    <<compose_name(<<m, c, name>>), compose_name(<<m, name>>),
      compose_name(<<c, name>>), name>>

\* the first candidate the backend reports as valid, None if there is none
FirstValid(cands) ==
    LET hits == {k \in 1..Len(cands) : Locate(cands[k]) = "object"}
    IN  IF hits = {} THEN None ELSE cands[Min(hits)]

\* expand_auto_directives has just returned: self.lines holds the expanded
\* sequence and the indexing pass has scanned nothing yet
Expanded == pc = "index" /\ i = 1

\* the lines rendered after line k of the original sequence ls
RenderedAfter(ls, k) ==
    LET d == parse_directive(ls[k])
        s == FirstValid(Candidates(d[2], ExpectedModule(ls, k), ExpectedClass(ls, k)))
    IN  IF d[1] # None /\ StartsWithAuto(d[1]) /\ d[2] # <<>> /\ s # None
        THEN SubSeq(RenderDoc(s), 3, Len(RenderDoc(s)))
        ELSE <<>>

C2_ExpansionIsConcatenation ==
    Expanded =>
        lines = Concat([k \in 1..Len(src) |-> <<src[k]>> \o RenderedAfter(src, k)])

\* the scenario: module p, autoclass W, p.W rendering two lines
C2_Witness ==
    /\ Expanded
    /\ src = <<Line_module_p, Line_autoclass_W>>
    /\ lines = src \o <<RenderedClassHead, RenderedMethod>>

\* the names line k of the final sequence ls registers in the indexing pass
RegisteredAt(ls, k) ==
    LET m == ExpectedModule(ls, k - 1)
        c == ExpectedClass(ls, k - 1)
        d == parse_directive(ls[k])
        g == SearchMethod(ls[k])
        byDirective ==
            IF d[1] \in DIRECTIVES_TO_INCLUDE /\ d[2] # <<>>
            THEN {FirstValid(Candidates(StripArgs(d[2]), m, c))}
            ELSE {}
        byMethod ==
            IF g # None /\ c # None
            THEN {FirstValid(Candidates(StripArgs(c \o <<".">> \o StripBold(g)), m, c))}
            ELSE {}
    IN  (byDirective \cup byMethod) \ {None, <<>>}

\* C3: after parse() every entry S -> k of the index has 0 <= k < number of
\* lines, and k is the zero-based position of the last line of the final
\* sequence whose value resolved to S
C3_IndexIsLastPosition ==
    pc = "parsed" =>
        \A S \in DOMAIN indices :
            /\ 0 <= indices[S]
            /\ indices[S] < Len(lines)
            /\ LET at == {k \in 1..Len(lines) : S \in RegisteredAt(lines, k)}
               IN  at # {} /\ indices[S] = Max(at) - 1

\* a symbol registered by two lines, with lines spliced in above the second
C3_Witness ==
    /\ pc = "parsed"
    /\ Len(lines) > Len(src)
    /\ \E S \in DOMAIN indices :
          /\ Cardinality({k \in 1..Len(lines) : S \in RegisteredAt(lines, k)}) >= 2
          /\ indices[S] >= Len(src)

\* C7: a second parse_indices() over the same lines leaves the index and the
\* lines as the first one left them
C7_ReindexIsIdentical ==
    pc = "done" => (indices = first /\ lines = out)

C7_Witness ==
    /\ pc = "done"
    /\ Cardinality(DOMAIN indices) >= 2
    /\ Len(lines) > Len(src)

\* C5: parse() raises no error, whatever the lines and the backend
C5_ParseNeverRaises == pc # "TypeError"

\* C10: the symbol whose documentation the expansion pass splices in after an
\* indexable auto directive line is the symbol the indexing pass records for
\* that line
C10_SameSymbolInBothPasses ==
    pc = "parsed" =>
        \A k \in 1..Len(lines) :
            (/\ explog[k] # None
             /\ explog[k] # <<"spliced">>
             /\ parse_directive(lines[k])[1] \in DIRECTIVES_TO_INCLUDE)
            => idxlog[k] = explog[k]


NoDirectives(ls) == \A k \in 1..Len(ls) : ~IsDirective(ls[k])

NoMethodLines(ls) == \A k \in 1..Len(ls) : ~IsMethodLine(ls[k])

\* C4 as claimed: with no directive in the input, whatever else the lines
\* hold, expansion leaves the lines unchanged and indexing leaves the index
\* empty
C4_NoDirectivesNoIndex ==
    NoDirectives(src) =>
        /\ pc \notin {"start", "expand"} => lines = src
        /\ pc = "parsed" => indices = EmptyDict

\* C4 amended: with no directive and no rendered method-signature line in the
\* input, expansion leaves the lines unchanged, indexing raises nothing and
\* leaves the index empty
C4_NoDirectivesNoMethodsNoIndex ==
    (NoDirectives(src) /\ NoMethodLines(src)) =>
        /\ pc \notin {"start", "expand"} => lines = src
        /\ pc # "TypeError"
        /\ indices = EmptyDict

\* a class header and a method line without the bold rendering, parsed
C4_Witness ==
    /\ pc = "parsed"
    /\ src = <<Line_class_head, Line_plain>>
    /\ Name_Wm \in valid

\* the position in the expanded sequence of line j of the original ls
RECURSIVE PosOf(_, _)
PosOf(ls, j) ==
    IF j = 1 THEN 1 ELSE PosOf(ls, j - 1) + 1 + Len(RenderedAfter(ls, j - 1))

\* line j of src is a directive whose value the backend validates under none
\* of the four candidates, in the expansion pass and in the indexing pass
Unresolvable(j) ==
    LET d == parse_directive(src[j])
        pos == PosOf(src, j)
    IN  /\ d[1] # None
        /\ FirstValid(Candidates(d[2], ExpectedModule(src, j),
                                 ExpectedClass(src, j))) = None
        /\ FirstValid(Candidates(StripArgs(d[2]), ExpectedModule(lines, pos - 1),
                                 ExpectedClass(lines, pos - 1))) = None

\* line j of src is kept, nothing is spliced in after it, no index entry
\* points at it, and the other lines and the index are those parse() gives
\* for src with line j emptied
Unaffected(j) ==
    LET pos == PosOf(src, j)
        r == parse([src EXCEPT ![j] = <<>>])
    IN  /\ pos <= Len(lines)
        /\ lines[pos] = src[j]
        /\ \A S \in DOMAIN indices : indices[S] # pos - 1
        /\ r = <<[lines EXCEPT ![pos] = <<>>], indices, "parsed">>

\* the line sets neither the module nor the class
ContextNeutral(line) == ~SetsModule(line) /\ ClassSetBy(line) = None

----------------------------------------------------------------------------
(* One call of read() on a fresh RSTParser *)

MaxItems == 5

Item_autosummary == <<".", ".", " ">> \o Lit_autosummary \o <<NL>>

Item_blank == <<NL>>

Item_foo == <<" ", " ", "f", NL>>

Item_bar == <<" ", "b", NL>>

Item_text == <<"t", NL>>

Items == {Item_autosummary, Item_blank, Item_foo, Item_bar, Item_text}

Texts == {Concat(s) : s \in UNION {[1..n -> Items] : n \in 0..MaxItems}}

ParseIdle ==
    /\ src = <<>> /\ lines = <<>> /\ out = <<>> /\ i = 1
    /\ module = None /\ cls = None /\ indices = EmptyDict /\ pc = "idle"
    /\ explog = <<>> /\ idxlog = <<>> /\ first = EmptyDict

InitRead ==
    /\ text \in Texts
    /\ rlines = <<>>
    /\ rpc = "start"
    /\ valid = {}
    /\ nloc = "None"
    /\ ParseIdle
    /\ ResolveIdle

\* read(stream) (lines 51-56)
Read ==
    /\ rpc = "start"
    /\ rlines' = read(text)
    /\ rpc' = "done"
    /\ UNCHANGED <<text, valid, nloc>>
    /\ UNCHANGED parseVars
    /\ UNCHANGED resolveVars

NextRead == Read

SpecRead == InitRead /\ [][NextRead]_vars

Line_autosummary == <<".", ".", " ">> \o Lit_autosummary

\* an indented entry of an autosummary block
IsEntry(l) == l # <<>> /\ l[1] = " " /\ \E k \in 1..Len(l) : l[k] # " "

\* tl[k] begins a block of n entries: the autosummary line, a blank line,
\* n indented entries, a blank line
IsBlock(tl, k, n) ==
    /\ n >= 1
    /\ k + n + 2 <= Len(tl)
    /\ tl[k] = Line_autosummary
    /\ tl[k + 1] = <<>>
    /\ \A e \in (k + 2)..(k + n + 1) : IsEntry(tl[e])
    /\ tl[k + n + 2] = <<>>

\* the text is made of autosummary blocks and of lines that are neither an
\* autosummary line nor indented, and holds at least one block
BlocksAndText(tl) ==
    /\ \E k \in 1..Len(tl) : tl[k] = Line_autosummary
    /\ \A k \in 1..Len(tl) :
          tl[k] = Line_autosummary => \E n \in 1..Len(tl) : IsBlock(tl, k, n)
    /\ \A e \in 1..Len(tl) :
          IsEntry(tl[e]) =>
              \E k \in 1..e, n \in 1..Len(tl) :
                  IsBlock(tl, k, n) /\ k + 2 <= e /\ e <= k + n + 1

\* `.. autosummary_:: <entry>`
PseudoDirective(entry) ==
    Lit_pseudo \o Drop(entry, RunEnd(entry, 1, SpaceChars))

\* the lines of ls that are not blank
NonBlank(ls) == SelectSeq(ls, LAMBDA l : l # <<>>)

\* the non-blank lines with each block replaced by one pseudo-directive per
\* entry
RECURSIVE Normalized(_)
Normalized(ls) ==
    IF ls = <<>> THEN <<>>
    ELSE IF Head(ls) = Line_autosummary THEN Normalized(Tail(ls))
    ELSE IF IsEntry(Head(ls)) THEN <<PseudoDirective(Head(ls))>> \o Normalized(Tail(ls))
    ELSE <<Head(ls)>> \o Normalized(Tail(ls))

\* C8: wherever an autosummary block stands in the text, its very first line
\* included, read() replaces it by one `.. autosummary_:: <entry>` line per
\* entry, in order, and leaves the other text unchanged
C8_BlocksBecomePseudoDirectives ==
    (rpc = "done" /\ BlocksAndText(splitlines(text))) =>
        NonBlank(rlines) = Normalized(NonBlank(splitlines(text)))

\* what holds instead: the same, for a text that does not begin with the
\* autosummary line and whose blocks number one
ReadAfterFirstLine ==
    (/\ rpc = "done"
     /\ BlocksAndText(splitlines(text))
     /\ splitlines(text)[1] # Line_autosummary
     /\ Cardinality({k \in 1..Len(splitlines(text)) :
                        splitlines(text)[k] = Line_autosummary}) = 1) =>
        NonBlank(rlines) = Normalized(NonBlank(splitlines(text)))

----------------------------------------------------------------------------
(* One call of resolve_name *)

Name_m == <<"m">>

Name_W == <<"W">>

Name_pm == <<"p", ".", "m">>

Name_pWm == <<"p", ".", "W", ".", "m">>

ResolveUniverse == {Name_pWm, Name_pm, Name_Wm, Name_m, Name_pW}

InitResolve ==
    /\ qname \in {Name_m, Name_W, Name_n}
    /\ qmodule \in {None, Name_p}
    /\ qcls \in {None, Name_W}
    /\ probes = <<>>
    /\ result = None
    /\ qpc = "call"
    /\ valid \in SUBSET ResolveUniverse
    /\ nloc \in LocateOutcomes
    /\ ParseIdle
    /\ ReadIdle

\* resolve_name(qname) with self.module = qmodule and self.cls = qcls
Resolve ==
    /\ qpc = "call"
    /\ probes' = resolve_probes(qname, qmodule, qcls)
    /\ result' = resolve_name(qname, qmodule, qcls)
    /\ qpc' = "returned"
    /\ UNCHANGED <<qname, qmodule, qcls, valid, nloc>>
    /\ UNCHANGED parseVars
    /\ UNCHANGED readVars

NextResolve == Resolve

SpecResolve == InitResolve /\ [][NextResolve]_vars

\* C1: resolve_name returns the first valid candidate in the order
\* compose(module, cls, name), compose(module, name), compose(cls, name),
\* name, and None exactly when no candidate is valid; the probes are issued
\* in that order, "p.W.m", "p.m", "W.m", "m" for "m" under module p, class W
C1_ResolveIsFirstValid ==
    qpc = "returned" =>
        LET cands == Candidates(qname, qmodule, qcls)
        IN  /\ result = FirstValid(cands)
            /\ (result = None) <=> (\A k \in 1..4 : Locate(cands[k]) # "object")
            /\ probes = Take(cands, Len(probes))
            /\ \A k \in 1..(Len(probes) - 1) : Locate(probes[k]) # "object"
            /\ (qname = Name_m /\ qmodule = Name_p /\ qcls = Name_W) =>
                   probes = Take(<<Name_pWm, Name_pm, Name_Wm, Name_m>>, Len(probes))

\* "m" under module p, class W resolving at the third probe
C1_Witness ==
    /\ qpc = "returned"
    /\ qname = Name_m /\ qmodule = Name_p /\ qcls = Name_W
    /\ probes = <<Name_pWm, Name_pm, Name_Wm>>
    /\ result = Name_Wm

====
